---- MODULE Spec2Model ----
(***************************************************************************)
(* MongoObservable.Collection (src/src/ObservableCollection.ts).           *)
(*                                                                         *)
(* The four mutating operations insert/remove/update/upsert are `async`    *)
(* methods.  A call runs synchronously up to its `await` on the host's     *)
(* xxxAsync promise: it allocates the `observers` array, builds `obs` with *)
(* _createObservable and launches the host mutation.  The rest of the body *)
(* (catch, observers.forEach, `return obs`) is one continuation that runs  *)
(* after the host promise has settled; `return obs` resolves the promise   *)
(* the call gave its caller, and the caller's own continuation receives    *)
(* `obs` in a later turn.  The state machine below follows these turns.    *)
(***************************************************************************)
EXTENDS Integers, Sequences, FiniteSets, TLC

\* ------------------------------------------------------------------ bounds
MaxCalls == 2
MaxSubs == 2
MaxRuleCalls == 1

Calls == 1..MaxCalls
Subs == 1..MaxSubs

\* ------------------------------------------------------------- JS values
Undefined == "undefined"

\* the values JavaScript's conditional operator treats as false
Falsy == {"undefined", "null", "0", ""}

Truthy(v) == v \notin Falsy

\* What the host's xxxAsync promise of call c fulfils with (an id, a count, an
\* upsert report): a value of the host's choosing, told apart per call.
FulfilValue(c) == "result" \o ToString(c)

\* what the host's xxxAsync promise may reject with (any JS value)
RejectValues == {"MeteorError", ""}

VARIABLES
  pc,          \* per call: "idle", "awaiting", "returned", "held"
  host,        \* per call: the host promise: "none", "pending", "fulfilled", "rejected"
  hostValue,   \* per call: the value the host promise settled with
  result,      \* per call: the local `result`
  error,       \* per call: the local `error`
  observers,   \* per call: the local array `observers`
  promise,     \* per call: the promise the async method returned
  launches,    \* per call: number of invocations of the host's xxxAsync
  drains,      \* per call: number of runs of observers.forEach
  subOf,       \* per subscriber: the call whose stream it subscribed to, 0 if none
  closed,      \* per subscriber: Subscription.closed
  stopped,     \* per subscriber: Subscriber.isStopped
  events,      \* per subscriber: the callbacks invoked so far, in order
  allowCount,  \* number of rule sets the store has registered through allow
  denyCount,   \* number of rule sets the store has registered through deny
  storeFlag,   \* what the store's allow/deny last returned
  facadeFlag,  \* what the facade's allow/deny last returned
  findOneRet,  \* what findOne last handed its caller: "none" before any call
  turn         \* the call whose caller is running the turn in which it received
               \* the stream; 0 when no such turn is in progress

callVars == <<pc, host, hostValue, result, error, observers, promise,
              launches, drains>>
subVars == <<subOf, closed, stopped, events>>
ruleVars == <<allowCount, denyCount, storeFlag, facadeFlag>>
queryVars == <<findOneRet>>
vars == <<callVars, subVars, ruleVars, queryVars, turn>>

Init ==
  /\ pc = [c \in Calls |-> "idle"]
  /\ host = [c \in Calls |-> "none"]
  /\ hostValue = [c \in Calls |-> Undefined]
  /\ result = [c \in Calls |-> Undefined]
  /\ error = [c \in Calls |-> Undefined]
  /\ observers = [c \in Calls |-> <<>>]
  /\ promise = [c \in Calls |-> "none"]
  /\ launches = [c \in Calls |-> 0]
  /\ drains = [c \in Calls |-> 0]
  /\ subOf = [s \in Subs |-> 0]
  /\ closed = [s \in Subs |-> FALSE]
  /\ stopped = [s \in Subs |-> FALSE]
  /\ events = [s \in Subs |-> <<>>]
  /\ allowCount = 0
  /\ denyCount = 0
  /\ storeFlag = "none"
  /\ facadeFlag = "none"
  /\ findOneRet = "none"
  /\ turn = 0

\* ------------------------------------------------- the subscriber registry
\* utils.removeObserver(observers, observer): removes the observer from the
\* array by identity; removing an absent observer changes nothing
removeObserver(obsList, s) == SelectSeq(obsList, LAMBDA x : x # s)

TeardownClearsAll(obsList, s) == <<>>

\* the teardown closure _createObservable returns for one subscription
Teardown(obsList, s) == removeObserver(obsList, s)

\* A delivery state: the array being iterated and the subscribers' state.
DeliveryState(c) ==
  [obs |-> observers[c], events |-> events, stopped |-> stopped, closed |-> closed]

\* Subscription.unsubscribe(): runs the teardown once, the first time
SubscriptionUnsubscribe(s, st) ==
  IF st.closed[s] THEN st
  ELSE [st EXCEPT !.closed[s] = TRUE, !.obs = Teardown(st.obs, s)]

\* observer.next(v): delivered unless the subscriber is stopped
SubscriberNext(s, v, st) ==
  IF st.stopped[s] THEN st
  ELSE [st EXCEPT !.events[s] = Append(@, <<"next", v>>)]

\* observer.error(e): delivered unless stopped; stops and unsubscribes
SubscriberError(s, e, st) ==
  IF st.stopped[s] THEN st
  ELSE SubscriptionUnsubscribe(s,
         [st EXCEPT !.stopped[s] = TRUE, !.events[s] = Append(@, <<"error", e>>)])

\* observer.complete(): delivered unless stopped; stops and unsubscribes
SubscriberComplete(s, st) ==
  IF st.stopped[s] THEN st
  ELSE SubscriptionUnsubscribe(s,
         [st EXCEPT !.stopped[s] = TRUE,
                    !.events[s] = Append(@, <<"complete", Undefined>>)])

\* the callback passed to observers.forEach
DrainCallback(s, err, res, st) ==
  SubscriberComplete(s,
    IF Truthy(err) THEN SubscriberError(s, err, st) ELSE SubscriberNext(s, res, st))

\* Array.prototype.forEach over the live array: the length is read once, index
\* k is visited only while it is still present in the array
RECURSIVE ForEach(_, _, _, _, _)
ForEach(k, len, err, res, st) ==
  IF k > len \/ k > Len(st.obs) THEN st
  ELSE ForEach(k + 1, len, err, res, DrainCallback(st.obs[k], err, res, st))

\* observers.forEach(observer => { ... }) of a mutating method
Drain(c, err, res) == ForEach(1, Len(observers[c]), err, res, DeliveryState(c))

\* --------------------------------------------------- the mutating methods
\* The synchronous part of insert/remove/update/upsert, up to the await: a
\* fresh observers array, the observable built on it, the host call launched
\* once, and a pending promise handed to the caller.  The four methods have
\* the same body but for the host method they call, and nothing later reads
\* which one is running.  Calls are numbered in the order they are made.
MutatingCall(c) ==
  /\ pc[c] = "idle"
  /\ \A d \in Calls : d < c => pc[d] # "idle"
  /\ pc' = [pc EXCEPT ![c] = "awaiting"]
  /\ observers' = [observers EXCEPT ![c] = <<>>]
  /\ host' = [host EXCEPT ![c] = "pending"]
  /\ launches' = [launches EXCEPT ![c] = @ + 1]
  /\ promise' = [promise EXCEPT ![c] = "pending"]
  /\ UNCHANGED <<hostValue, result, error, drains, subVars, ruleVars, queryVars, turn>>

Insert(c) == MutatingCall(c)

Remove(c) == MutatingCall(c)

Update(c) == MutatingCall(c)

Upsert(c) == MutatingCall(c)

\* the host's xxxAsync promise fulfils
HostFulfil(c) ==
  /\ turn = 0
  /\ host[c] = "pending"
  /\ host' = [host EXCEPT ![c] = "fulfilled"]
  /\ hostValue' = [hostValue EXCEPT ![c] = FulfilValue(c)]
  /\ UNCHANGED <<pc, result, error, observers, promise, launches, drains,
                 subVars, ruleVars, queryVars, turn>>

\* the host's xxxAsync promise rejects
HostReject(c) ==
  /\ turn = 0
  /\ host[c] = "pending"
  /\ \E e \in RejectValues :
       /\ host' = [host EXCEPT ![c] = "rejected"]
       /\ hostValue' = [hostValue EXCEPT ![c] = e]
  /\ UNCHANGED <<pc, result, error, observers, promise, launches, drains,
                 subVars, ruleVars, queryVars, turn>>

SettleRethrows(h) == IF h = "rejected" THEN "rejected" ELSE "fulfilled"

\* How the async method's own promise settles: the try/catch has consumed a
\* rejection of the host promise, and `return obs` fulfils it.
SettleAsync(h) == "fulfilled"

\* The continuation of the await: try/catch assigns result or error, forEach
\* drains the observers, `return obs` resolves the method's promise.
Resume(c) ==
  /\ turn = 0
  /\ pc[c] = "awaiting"
  /\ host[c] \in {"fulfilled", "rejected"}
  /\ LET res == IF host[c] = "fulfilled" THEN hostValue[c] ELSE Undefined
         err == IF host[c] = "rejected" THEN hostValue[c] ELSE Undefined
         st == Drain(c, err, res)
     IN /\ result' = [result EXCEPT ![c] = res]
        /\ error' = [error EXCEPT ![c] = err]
        /\ observers' = [observers EXCEPT ![c] = st.obs]
        /\ events' = st.events
        /\ stopped' = st.stopped
        /\ closed' = st.closed
  /\ drains' = [drains EXCEPT ![c] = @ + 1]
  /\ promise' = [promise EXCEPT ![c] = SettleAsync(host[c])]
  /\ pc' = [pc EXCEPT ![c] = "returned"]
  /\ UNCHANGED <<host, hostValue, launches, subOf, ruleVars, queryVars, turn>>

\* The caller's continuation (its `await` or `.then` on the method's promise)
\* starts: from here on the caller holds `obs`.  The turn runs to completion
\* before any other continuation or host completion is processed.
Receive(c) ==
  /\ turn = 0
  /\ pc[c] = "returned"
  /\ pc' = [pc EXCEPT ![c] = "held"]
  /\ turn' = c
  /\ UNCHANGED <<host, hostValue, result, error, observers, promise,
                 launches, drains, subVars, ruleVars, queryVars>>

\* the turn in which the caller received the stream ends
Yield ==
  /\ turn # 0
  /\ turn' = 0
  /\ UNCHANGED <<callVars, subVars, ruleVars, queryVars>>

CallerHoldsFromCall(c) == pc[c] # "idle"

\* Whether the caller of call c has `obs` in hand: the method is async, so obs
\* travels through the returned promise, which `return obs` resolves after the
\* forEach, and reaches the caller in the continuation that follows.
CallerHolds(c) == pc[c] = "held"

SubscribeFnShared(c, s) ==
  [obs |-> Append(observers[1], s), launches |-> launches[c], events |-> events[s]]

SubscribeFnUnshift(c, s) ==
  [obs |-> <<s>> \o observers[c], launches |-> launches[c], events |-> events[s]]

SubscribeFnCold(c, s) ==
  [obs |-> Append(observers[c], s), launches |-> launches[c] + 1,
   events |-> events[s]]

SubscribeFnReplay(c, s) ==
  [obs |-> Append(observers[c], s), launches |-> launches[c],
   events |-> IF drains[c] > 0 THEN <<<<"next", result[c]>>>> ELSE events[s]]

\* The subscribe function given to Observable.create: it pushes the new
\* subscriber on the call's observers array, and does nothing else.
SubscribeFn(c, s) ==
  [obs |-> Append(observers[c], s), launches |-> launches[c], events |-> events[s]]

\* obs.subscribe(...): possible only once the caller holds obs, in the turn
\* that received it or in any later one.  Subscribers are numbered in the
\* order they are created.
Subscribe(c, s) ==
  /\ CallerHolds(c)
  /\ subOf[s] = 0
  /\ \A q \in Subs : q < s => subOf[q] # 0
  /\ LET r == SubscribeFn(c, s)
     IN /\ observers' = [observers EXCEPT ![c] = r.obs]
        /\ launches' = [launches EXCEPT ![c] = r.launches]
        /\ events' = [events EXCEPT ![s] = r.events]
  /\ subOf' = [subOf EXCEPT ![s] = c]
  /\ UNCHANGED <<pc, host, hostValue, result, error, promise, drains,
                 closed, stopped, ruleVars, queryVars, turn>>

\* subscription.unsubscribe(), called by the holder of a subscription
Unsubscribe(s) ==
  /\ subOf[s] # 0
  /\ LET c == subOf[s]
         st == SubscriptionUnsubscribe(s, DeliveryState(c))
     IN /\ observers' = [observers EXCEPT ![c] = st.obs]
        /\ closed' = st.closed
        /\ stopped' = st.stopped
        /\ events' = st.events
  /\ UNCHANGED <<pc, host, hostValue, result, error, promise, launches,
                 drains, subOf, ruleVars, queryVars, turn>>

\* --------------------------------------------------------- allow and deny
ReturnTrue(f) == "true"

\* `return this._collection.allow(options)`: the store's flag, as it is
PassThrough(f) == f

\* allow(options): the store registers the rules and answers with its flag
Allow ==
  /\ allowCount + denyCount < MaxRuleCalls
  /\ \E f \in {"true", "false"} :
       /\ storeFlag' = f
       /\ facadeFlag' = PassThrough(f)
  /\ allowCount' = allowCount + 1
  /\ UNCHANGED <<denyCount, callVars, subVars, queryVars, turn>>

\* deny(options): the store registers the rules and answers with its flag
Deny ==
  /\ allowCount + denyCount < MaxRuleCalls
  /\ \E f \in {"true", "false"} :
       /\ storeFlag' = f
       /\ facadeFlag' = PassThrough(f)
  /\ denyCount' = denyCount + 1
  /\ UNCHANGED <<allowCount, callVars, subVars, queryVars, turn>>

\* ---------------------------------------------------------------- findOne
\* what the host's findOneAsync hands back: a deferred result (a promise of
\* the document or of undefined), never the document itself
FindOneAsync == "deferred"

\* findOne(selector, options): `return this._collection.findOneAsync.apply(...)`,
\* the host's return value handed to the caller as it is
FindOne ==
  /\ findOneRet' = FindOneAsync
  /\ UNCHANGED <<callVars, subVars, ruleVars, turn>>

\* ------------------------------------------------------- the specification
Next ==
  \/ \E c \in Calls : Insert(c)
  \/ \E c \in Calls : Remove(c)
  \/ \E c \in Calls : Update(c)
  \/ \E c \in Calls : Upsert(c)
  \/ \E c \in Calls : HostFulfil(c)
  \/ \E c \in Calls : HostReject(c)
  \/ \E c \in Calls : Resume(c)
  \/ \E c \in Calls : Receive(c)
  \/ Yield
  \/ \E c \in Calls, s \in Subs : Subscribe(c, s)
  \/ \E s \in Subs : Unsubscribe(s)
  \/ FindOne
  \/ Allow
  \/ Deny

Spec == Init /\ [][Next]_vars

\* ------------------------------------------------- the drain, on its inputs
\* The forEach block of a mutating method is a function of the observers array
\* and of the settled host promise.  DrainSpec draws these inputs from bounded
\* sets (every assignment of the subscribers to the calls' arrays, every way
\* the host promise can settle, any JS value as the rejection) and applies
\* the continuation of the await to them.
AllSubs == [i \in 1..MaxSubs |-> i]

\* a rejection can carry any JS value, the ones that convert to false included
DrainRejectValues == RejectValues \cup Falsy

DrainInit ==
  /\ \E reg \in [Subs -> {0} \cup Calls] :
       /\ subOf = reg
       /\ observers = [c \in Calls |-> SelectSeq(AllSubs, LAMBDA s : reg[s] = c)]
  /\ host \in [Calls -> {"fulfilled", "rejected"}]
  /\ hostValue \in [Calls -> {FulfilValue(c) : c \in Calls} \cup DrainRejectValues]
  /\ \A c \in Calls :
       IF host[c] = "fulfilled" THEN hostValue[c] = FulfilValue(c)
       ELSE hostValue[c] \in DrainRejectValues
  /\ pc = [c \in Calls |-> "awaiting"]
  /\ result = [c \in Calls |-> Undefined]
  /\ error = [c \in Calls |-> Undefined]
  /\ promise = [c \in Calls |-> "pending"]
  /\ launches = [c \in Calls |-> 1]
  /\ drains = [c \in Calls |-> 0]
  /\ closed = [s \in Subs |-> FALSE]
  /\ stopped = [s \in Subs |-> FALSE]
  /\ events = [s \in Subs |-> <<>>]
  /\ allowCount = 0
  /\ denyCount = 0
  /\ storeFlag = "none"
  /\ facadeFlag = "none"
  /\ findOneRet = "none"
  /\ turn = 0

DrainNext == \E c \in Calls : Resume(c)

DrainSpec == DrainInit /\ [][DrainNext]_vars

\* ------------------------------------------------------------- vocabulary
Settled(c) == host[c] \in {"fulfilled", "rejected"}

Drained(c) == drains[c] > 0

\* the events a subscriber of call c is owed, given how the host settled
Outcome(c) ==
  IF host[c] = "fulfilled"
  THEN << <<"next", hostValue[c]>>, <<"complete", Undefined>> >>
  ELSE << <<"error", hostValue[c]>> >>

\* s subscribed to the stream of c in the very turn in which the caller was
\* handed the stream, the earliest moment a caller can subscribe
SameTurnSubscriber(c, s) == turn = c /\ subOf[s] = c

\* ------------------------------------------------------------------ claims

\* C1: for every mutating call, the caller holds the stream before the host
\* mutation settles and before the registry is drained.
C1_StreamHeldBeforeSettlement ==
  \A c \in Calls : (Settled(c) \/ Drained(c)) => pc[c] = "held"

C5_LateSubscribeStep ==
  \A s \in Subs :
    /\ \* the subscribe itself: accepted, nothing delivered
       (subOf[s] = 0 /\ subOf'[s] # 0 /\ Drained(subOf'[s]))
         => events'[s] = <<>> /\ ~stopped'[s] /\ ~closed'[s]
    /\ \* afterwards: never invoked
       (subOf[s] # 0 /\ Drained(subOf[s]) /\ events[s] = <<>>)
         => events'[s] = <<>>
    /\ \* its unsubscribe: nothing observable changes
       (subOf[s] # 0 /\ Drained(subOf[s]) /\ events[s] = <<>>
          /\ ~closed[s] /\ closed'[s])
         => UNCHANGED <<events, stopped, host, hostValue, result, error,
                        promise, launches, drains>>

C5_LateSubscriberNeverInvoked == [][C5_LateSubscribeStep]_vars

C5_Witness ==
  \E s \in Subs :
    /\ subOf[s] # 0
    /\ Drained(subOf[s])
    /\ closed[s]
    /\ events[s] = <<>>

\* C6: a rejection of the host mutation never makes the facade call fail (its
\* promise is fulfilled with the stream); the error is captured in the local
\* `error`, reaches nobody but subscribers' error callbacks, and with an empty
\* registry at settlement nothing at all is delivered.
C6_RejectionNotPropagated ==
  \A c \in Calls :
    /\ promise[c] # "rejected"
    /\ (host[c] = "rejected" /\ Drained(c))
         => /\ promise[c] = "fulfilled"
            /\ error[c] = hostValue[c]
            /\ \A s \in Subs :
                 subOf[s] = c =>
                   events[s] \in {<<>>, << <<"error", hostValue[c]>> >>}

C6_Witness ==
  \E c \in Calls :
    /\ host[c] = "rejected"
    /\ pc[c] = "held"
    /\ promise[c] = "fulfilled"
    /\ \A s \in Subs : events[s] = <<>>

\* C8: each facade call launches the host mutation exactly once and drains
\* exactly once, however often its stream is subscribed or unsubscribed.
C8_LaunchedAndSettledOnce ==
  \A c \in Calls :
    /\ launches[c] = IF pc[c] = "idle" THEN 0 ELSE 1
    /\ drains[c] = IF pc[c] \in {"returned", "held"} THEN 1 ELSE 0
    /\ (host[c] = "none") = (pc[c] = "idle")
    /\ Drained(c) => Settled(c)

C8_Witness ==
  \E c \in Calls, s1 \in Subs, s2 \in Subs :
    /\ s1 # s2
    /\ subOf[s1] = c /\ closed[s1]
    /\ subOf[s2] = c /\ ~closed[s2]
    /\ launches[c] = 1
    /\ drains[c] = 1

\* C9: an unsubscribe changes the registry of its own stream only, and there
\* removes that one subscriber only: every host mutation (in flight or
\* settled), every result and error, every other registry and every delivery
\* made so far stay as they were, so a pending mutation stays pending and able
\* to settle.
C9_UnsubscribeStep ==
  \A s \in Subs :
    (~closed[s] /\ closed'[s] /\ events'[s] = events[s])
      => /\ UNCHANGED <<pc, host, hostValue, result, error, promise, launches,
                        drains, events, stopped, subOf>>
         /\ \A q \in Subs \ {s} : closed'[q] = closed[q]
         /\ \A c \in Calls :
              observers'[c] =
                IF c = subOf[s]
                THEN SelectSeq(observers[c], LAMBDA x : x # s)
                ELSE observers[c]

C9_UnsubscribeTouchesOnlyRegistry == [][C9_UnsubscribeStep]_vars

C9_Witness ==
  \E s1 \in Subs, s2 \in Subs :
    /\ s1 # s2
    /\ closed[s1]
    /\ subOf[s1] = 2 /\ subOf[s2] = 2
    /\ observers[2] = <<s2>>
    /\ host[1] = "pending"

\* C10: allow and deny return the store's flag as it is, and the step leaves
\* every call's registry, pending outcome and deliveries untouched.
C10_AllowDenyStep ==
  (allowCount' # allowCount \/ denyCount' # denyCount)
    => /\ facadeFlag' = storeFlag'
       /\ UNCHANGED <<callVars, subVars, queryVars, turn>>

C10_AllowDenyPassThrough == [][C10_AllowDenyStep]_vars

C10_Witness ==
  /\ allowCount + denyCount > 0
  /\ facadeFlag = "false"
  /\ \E c \in Calls : pc[c] = "awaiting" /\ Settled(c)

\* C11: findOne hands its caller, in the turn of the call, the matching
\* document or undefined, never a deferred result.
C11_FindOneSynchronous == findOneRet \in {"none", "document", "undefined"}

C14_RegistryFrozenAfterDrain ==
  [][\A c \in Calls : Drained(c) => observers'[c] = observers[c]]_vars

\* C14 (amended): once the registry of a call has been drained it is never
\* drained again and nothing is delivered from it; a later subscribe still
\* appends its subscriber to the array and a later unsubscribe still removes
\* its subscriber from it.
C14_AfterDrainStep ==
  \A c \in Calls :
    Drained(c) =>
      /\ drains'[c] = drains[c]
      /\ \A s \in Subs : (subOf[s] = c \/ subOf'[s] = c) => events'[s] = events[s]
      /\ \/ observers'[c] = observers[c]
         \/ \E s \in Subs :
              /\ subOf[s] = 0 /\ subOf'[s] = c
              /\ observers'[c] = Append(observers[c], s)
         \/ \E s \in Subs :
              /\ subOf[s] = c /\ ~closed[s] /\ closed'[s]
              /\ observers'[c] = SelectSeq(observers[c], LAMBDA x : x # s)

C14_DrainedRegistryOnlyAppendedOrRemoved == [][C14_AfterDrainStep]_vars

C14_Witness ==
  \E c \in Calls : Drained(c) /\ Len(observers[c]) = 2

\* C15: each call owns its registry: whoever is in the registry of a call
\* subscribed to that call's stream, and whatever a subscriber is sent carries
\* the result or error of the call it subscribed to, never another call's.
C15_RegistryPerCall ==
  /\ \A c \in Calls : \A i \in 1..Len(observers[c]) : subOf[observers[c][i]] = c
  /\ \A s \in Subs : \A i \in 1..Len(events[s]) :
       /\ subOf[s] # 0
       /\ events[s][i][2] \in {hostValue[subOf[s]], Undefined}

C15_Witness ==
  /\ MaxCalls >= 2 /\ MaxSubs >= 2
  /\ observers[1] = <<2>>
  /\ observers[2] = <<1>>
  /\ host[1] = "rejected"
  /\ host[2] = "fulfilled"

\* C16: whatever the interleaving of subscribes and unsubscribes on a stream,
\* its registry holds exactly the subscribers that subscribed to it and have
\* not unsubscribed, in subscription order (subscribers are numbered in that
\* order); so an unsubscribe repeated, or made after the drain, removes nobody
\* else.
C16_RegistryIsSubscribedMinusUnsubscribed ==
  \A c \in Calls :
    observers[c] = SelectSeq(AllSubs, LAMBDA s : subOf[s] = c /\ ~closed[s])

C16_Witness ==
  /\ MaxSubs >= 2
  /\ subOf[1] = 1 /\ closed[1]
  /\ subOf[2] = 1 /\ ~closed[2]
  /\ observers[1] = <<2>>

====
